---- MODULE Spec2Model ----
(***************************************************************************)
(* Model of the content pipeline of generate_site.py: main() and the steps *)
(* it calls, with the output directory as a map from path to file content. *)
(* Strings are sequences of one-character strings, so that slugify, the    *)
(* tag-line parsing, strptime and the pathlib stem/suffix split are         *)
(* computed character by character as the code computes them.               *)
(***************************************************************************)
EXTENDS Integers, Sequences, FiniteSets, TLC

(* ------------------------------------------------------------------ *)
(* Bounds of the model                                                  *)
(* ------------------------------------------------------------------ *)
MaxPosts == 3
MaxPerPage == 3
MaxImages == 2
MaxPlugins == 2
MaxRuns == 2
MaxFragments == 2

(* ------------------------------------------------------------------ *)
(* Characters and string helpers (str methods and re of Python)         *)
(* ------------------------------------------------------------------ *)
UpperChars == <<"A","B","C","D","E","F","G","H","I","J","K","L","M",
                "N","O","P","Q","R","S","T","U","V","W","X","Y","Z">>
LowerChars == <<"a","b","c","d","e","f","g","h","i","j","k","l","m",
                "n","o","p","q","r","s","t","u","v","w","x","y","z">>
DigitChars == <<"0","1","2","3","4","5","6","7","8","9">>

Range(s) == {s[i] : i \in DOMAIN s}

UpperSet == Range(UpperChars)
LowerSet == Range(LowerChars)
DigitSet == Range(DigitChars)
WordSet == Range(UpperChars) \cup Range(LowerChars) \cup Range(DigitChars) \cup {"_"}

IsUpper(c) == c \in UpperSet
IsDigit(c) == c \in DigitSet
\* \w of re (str patterns): letters, digits and the underscore
IsWord(c) == c \in WordSet
\* \s of re and the whitespace of str.strip
IsSpace(c) == c \in {" ", "\t"}

LowerChar(c) ==
    IF IsUpper(c) THEN LowerChars[CHOOSE i \in DOMAIN UpperChars : UpperChars[i] = c] ELSE c

\* str.lower
Lower(s) == [i \in DOMAIN s |-> LowerChar(s[i])]

IsLower(c) == c \in LowerSet

UpperChar(c) ==
    IF IsLower(c) THEN UpperChars[CHOOSE i \in DOMAIN LowerChars : LowerChars[i] = c] ELSE c

\* str.title: a letter that follows a letter is lowered, any other letter is raised
RECURSIVE TitleAcc(_, _)
TitleAcc(s, after_letter) ==
    IF s = <<>> THEN <<>>
    ELSE LET c == Head(s)
             letter == IsUpper(c) \/ IsLower(c)
         IN  <<IF ~letter THEN c ELSE IF after_letter THEN LowerChar(c) ELSE UpperChar(c)>>
             \o TitleAcc(Tail(s), letter)

TitleCase(s) == TitleAcc(s, FALSE)

RECURSIVE LStrip(_)
LStrip(s) == IF s # <<>> /\ IsSpace(Head(s)) THEN LStrip(Tail(s)) ELSE s

RECURSIVE RStrip(_)
RStrip(s) ==
    IF s # <<>> /\ IsSpace(s[Len(s)]) THEN RStrip(SubSeq(s, 1, Len(s) - 1)) ELSE s

\* str.strip
Strip(s) == RStrip(LStrip(s))

\* str.startswith
StartsWith(s, p) == Len(s) >= Len(p) /\ SubSeq(s, 1, Len(p)) = p

\* str.endswith
EndsWith(s, p) == Len(s) >= Len(p) /\ SubSeq(s, Len(s) - Len(p) + 1, Len(s)) = p

\* str.split(sep) for a one-character separator: always at least one field
RECURSIVE SplitAcc(_, _, _)
SplitAcc(s, sep, cur) ==
    IF s = <<>> THEN <<cur>>
    ELSE IF Head(s) = sep THEN <<cur>> \o SplitAcc(Tail(s), sep, <<>>)
    ELSE SplitAcc(Tail(s), sep, Append(cur, Head(s)))

Split(s, sep) == SplitAcc(s, sep, <<>>)

\* s[:n]
Prefix(s, n) == SubSeq(s, 1, IF Len(s) < n THEN Len(s) ELSE n)

\* the index of the last "." of a name, 0 when there is none
LastDot(s) ==
    IF \E i \in DOMAIN s : s[i] = "."
    THEN CHOOSE i \in DOMAIN s : s[i] = "." /\ \A j \in DOMAIN s : s[j] = "." => j <= i
    ELSE 0

\* PurePath.suffix: from the last dot, unless the name starts or ends with it
Suffix(name) ==
    LET i == LastDot(name)
    IN  IF 1 < i /\ i < Len(name) THEN SubSeq(name, i, Len(name)) ELSE <<>>

\* PurePath.stem: the name without its suffix
Stem(name) ==
    LET i == LastDot(name)
    IN  IF 1 < i /\ i < Len(name) THEN SubSeq(name, 1, i - 1) ELSE name

\* str(n) for n >= 0
RECURSIVE IntStr(_)
IntStr(n) ==
    IF n < 10 THEN <<DigitChars[n + 1]>>
    ELSE IntStr(n \div 10) \o <<DigitChars[(n % 10) + 1]>>

\* int(s) for a string of digits
DigitVal(c) == (CHOOSE i \in DOMAIN DigitChars : DigitChars[i] = c) - 1

RECURSIVE StrInt(_)
StrInt(s) ==
    IF s = <<>> THEN 0
    ELSE 10 * StrInt(SubSeq(s, 1, Len(s) - 1)) + DigitVal(s[Len(s)])

AllDigits(s) == \A i \in DOMAIN s : IsDigit(s[i])

(* ------------------------------------------------------------------ *)
(* slugify (generate_site.py 145-154)                                   *)
(* ------------------------------------------------------------------ *)
\* re.sub(r'[^\w\s-]', '', value)
RemoveNonSlug(s) == SelectSeq(s, LAMBDA c : IsWord(c) \/ IsSpace(c) \/ c = "-")

IsSep(c) == IsSpace(c) \/ c = "-"

\* re.sub(r'[-\s]+', '-', value): every maximal run of separators becomes one "-"
RECURSIVE CollapseSeps(_)
CollapseSeps(s) ==
    IF s = <<>> THEN <<>>
    ELSE IF IsSep(Head(s))
         THEN IF Len(s) > 1 /\ IsSep(s[2]) THEN CollapseSeps(Tail(s))
              ELSE <<"-">> \o CollapseSeps(Tail(s))
         ELSE <<Head(s)>> \o CollapseSeps(Tail(s))

slugify(value) == CollapseSeps(RemoveNonSlug(Lower(Strip(value))))

(* ------------------------------------------------------------------ *)
(* datetime: <<year, month, day, time of day>>                          *)
(* ------------------------------------------------------------------ *)
IsLeap(y) == (y % 4 = 0 /\ y % 100 # 0) \/ y % 400 = 0

DaysIn(y, m) ==
    IF m = 2 THEN (IF IsLeap(y) THEN 29 ELSE 28)
    ELSE IF m \in {4, 6, 9, 11} THEN 30 ELSE 31

\* the sort key of a datetime: dates compare by year, month, day, time
DtLess(a, b) ==
    \/ a[1] < b[1]
    \/ a[1] = b[1] /\ a[2] < b[2]
    \/ a[1] = b[1] /\ a[2] = b[2] /\ a[3] < b[3]
    \/ a[1] = b[1] /\ a[2] = b[2] /\ a[3] = b[3] /\ a[4] < b[4]

\* the month field of %m and the day field of %d: one or two digits, not zero
FieldOk(f, hi) ==
    /\ Len(f) \in {1, 2}
    /\ AllDigits(f)
    /\ StrInt(f) \in 1..hi

\* strptime without the check of the day against the month
strptimeNoCalendar(s) ==
    LET parts == Split(s, "-")
        ok == /\ Len(parts) = 3
              /\ Len(parts[1]) = 4 /\ AllDigits(parts[1])
              /\ StrInt(parts[1]) >= 1
              /\ FieldOk(parts[2], 12)
              /\ FieldOk(parts[3], 31)
    IN  IF ok THEN <<TRUE, <<StrInt(parts[1]), StrInt(parts[2]), StrInt(parts[3]), 0>>>>
        ELSE <<FALSE, <<>>>>

\* datetime.strptime(s, '%Y-%m-%d'): <<TRUE, datetime>> or <<FALSE, <<>>>> for ValueError
strptime(s) ==
    LET parts == Split(s, "-")
        ok == /\ Len(parts) = 3
              /\ Len(parts[1]) = 4 /\ AllDigits(parts[1])
              /\ StrInt(parts[1]) >= 1
              /\ FieldOk(parts[2], 12)
              /\ FieldOk(parts[3], 31)
              /\ StrInt(parts[3]) <= DaysIn(StrInt(parts[1]), StrInt(parts[2]))
    IN  IF ok THEN <<TRUE, <<StrInt(parts[1]), StrInt(parts[2]), StrInt(parts[3]), 0>>>>
        ELSE <<FALSE, <<>>>>

\* strftime('%d %B %Y'): day, month and year, the time of day is dropped
strftime(dt) == <<dt[3], dt[2], dt[1]>>


\* a descending sort that puts an element before those of equal date
RECURSIVE InsertDescUnstable(_, _)
InsertDescUnstable(sorted, x) ==
    IF sorted = <<>> THEN <<x>>
    ELSE IF ~DtLess(x.date, Head(sorted).date) THEN <<x>> \o sorted
    ELSE <<Head(sorted)>> \o InsertDescUnstable(Tail(sorted), x)

\* list.sort(key=lambda x: x['date'], reverse=True): stable, so an element goes
\* after every element whose date is not smaller
RECURSIVE InsertDesc(_, _)
InsertDesc(sorted, x) ==
    IF sorted = <<>> THEN <<x>>
    ELSE IF DtLess(Head(sorted).date, x.date) THEN <<x>> \o sorted
    ELSE <<Head(sorted)>> \o InsertDesc(Tail(sorted), x)

RECURSIVE SortByDateDesc(_)
SortByDateDesc(s) ==
    IF s = <<>> THEN <<>>
    ELSE InsertDesc(SortByDateDesc(SubSeq(s, 1, Len(s) - 1)), s[Len(s)])

\* the characters of the model in code-point order, for the comparison of str
Ascii == <<"\t", " ", "!", "#", "+", ",", "-", ".", "/", ":">> \o DigitChars
         \o UpperChars \o <<"_">> \o LowerChars

Ord(c) == CHOOSE i \in DOMAIN Ascii : Ascii[i] = c

\* a < b for str
RECURSIVE StrLess(_, _)
StrLess(a, b) ==
    IF b = <<>> THEN FALSE
    ELSE IF a = <<>> THEN TRUE
    ELSE IF Head(a) = Head(b) THEN StrLess(Tail(a), Tail(b))
    ELSE Ord(Head(a)) < Ord(Head(b))

\* sorted(..., key=lambda t: t['name']): stable, ascending
RECURSIVE InsertByName(_, _)
InsertByName(sorted, x) ==
    IF sorted = <<>> THEN <<x>>
    ELSE IF StrLess(x.name, Head(sorted).name) THEN <<x>> \o sorted
    ELSE <<Head(sorted)>> \o InsertByName(Tail(sorted), x)

RECURSIVE SortByName(_)
SortByName(s) ==
    IF s = <<>> THEN <<>>
    ELSE InsertByName(SortByName(SubSeq(s, 1, Len(s) - 1)), s[Len(s)])

(* ------------------------------------------------------------------ *)
(* String literals of the program                                       *)
(* ------------------------------------------------------------------ *)
S_html == <<".","h","t","m","l">>
S_md == <<".","m","d">>
S_posts == <<"p","o","s","t","s","/">>
S_pages == <<"p","a","g","e","s","/">>
S_page == <<"p","a","g","e","/">>
S_tags == <<"t","a","g","s","/">>
S_images == <<"i","m","a","g","e","s","/">>
S_plugins == <<"p","l","u","g","i","n","s","/">>
S_index_html == <<"i","n","d","e","x",".","h","t","m","l">>
S_index_md == <<"i","n","d","e","x",".","m","d">>
S_tags_html == <<"t","a","g","s",".","h","t","m","l">>
S_tags_colon == <<"t","a","g","s",":">>
S_mobile == <<"-","m","o","b","i","l","e">>
S_desktop == <<"-","d","e","s","k","t","o","p">>
ImageSuffixes == {<<".","j","p","g">>, <<".","j","p","e","g">>, <<".","p","n","g">>}

(* ------------------------------------------------------------------ *)
(* The files the inputs are drawn from                                  *)
(* ------------------------------------------------------------------ *)
\* content/posts: name and the lines of the text
PostA == [name |-> <<"2","0","2","4","-","0","1","-","0","3","-","a",".","m","d">>, lines |-> <<<<"T","a","g","s",":"," ","G","o",","," ","r","u","s","t">>, <<"#"," ","A">>>>]
PostB == [name |-> <<"2","0","2","4","-","0","1","-","0","2","-","b",".","m","d">>, lines |-> <<<<"t","a","g","s",":"," ","g","o">>, <<"B">>>>]
PostC == [name |-> <<"2","0","2","4","-","0","1","-","0","2","-","c",".","m","d">>, lines |-> <<<<"#"," ","C">>>>]
PostD == [name |-> <<"d","r","a","f","t",".","m","d">>, lines |-> <<<<"t","a","g","s",":"," ","c","+","+",","," ","c",",",","," ","g","o","!">>>>]
PostE == [name |-> <<"2","0","2","4","-","0","2","-","3","0","-","x",".","m","d">>, lines |-> <<>>]
PostF == [name |-> <<"n","o","t","e","s",".","t","x","t">>, lines |-> <<<<"t","a","g","s",":"," ","g","o">>>>]
PostPool == <<PostA, PostB, PostC, PostD, PostE, PostF>>

\* content/pages
PageAbout == [name |-> <<"a","b","o","u","t",".","m","d">>, lines |-> <<<<"#"," ","A","b","o","u","t">>>>]
PageIndex == [name |-> <<"i","n","d","e","x",".","m","d">>, lines |-> <<<<"h","o","m","e">>>>]

\* static: the regular files of the static root
StaticCss == <<"s","t","y","l","e","s",".","c","s","s">>
StaticIndex == <<"i","n","d","e","x",".","h","t","m","l">>

\* static/images: name, and what the entry is: a decodable image, a file
\* PIL cannot identify, an image whose header reads but whose data is cut
\* short, or a directory
ImgA == [name |-> <<"a",".","p","n","g">>, data |-> "image"]
ImgB == [name |-> <<"b",".","J","P","G">>, data |-> "image"]
ImgC == [name |-> <<"c",".","g","i","f">>, data |-> "image"]
ImgD == [name |-> <<"d",".","j","p","e","g">>, data |-> "unidentified"]
ImgE == [name |-> <<"e",".","p","n","g">>, data |-> "truncated"]
ImgS == [name |-> <<"s","u","b">>, data |-> "dir"]
ImagePool == <<ImgA, ImgB, ImgC, ImgD, ImgE, ImgS>>

\* plugins/: what each plugin directory holds
PlugEx == <<"e","x">>
PlugCc == <<"c","c">>
PlugHd == <<"h","d">>
PlugNo == <<"n","o">>
PluginNames == {PlugEx, PlugCc, PlugHd, PlugNo}
PluginDisk(name) ==
    IF name = PlugEx THEN [isdir |-> TRUE, head |-> TRUE, body |-> TRUE, static |-> TRUE]
    ELSE IF name = PlugCc THEN [isdir |-> TRUE, head |-> FALSE, body |-> TRUE, static |-> FALSE]
    ELSE IF name = PlugHd THEN [isdir |-> TRUE, head |-> TRUE, body |-> FALSE, static |-> TRUE]
    ELSE [isdir |-> FALSE, head |-> FALSE, body |-> FALSE, static |-> FALSE]

\* what the output directory may hold before a run
StaleOld == <<"o","l","d",".","h","t","m","l">>
StalePost == <<"p","o","s","t","s","/","2","0","2","3","-","0","1","-","0","1","-","g","o","n","e",".","h","t","m","l">>
StalePage == <<"p","a","g","e","/","9",".","h","t","m","l">>
StalePool == {StaleOld, StalePost, StalePage, S_index_html}

\* the days the clock may show, and the times of day: midnight and later
ClockDays == {<<2024, 1, 2>>, <<2024, 1, 3>>}
ClockTods == {0, 1}
Times == {<<d[1], d[2], d[3], t>> : d \in ClockDays, t \in ClockTods}

\* the sequences of at most n elements of S
RECURSIVE SeqsUpTo(_, _)
SeqsUpTo(S, n) ==
    IF n = 0 THEN {<<>>}
    ELSE LET shorter == SeqsUpTo(S, n - 1)
         IN  shorter \cup {Append(q, x) : q \in {r \in shorter : Len(r) = n - 1},
                                          x \in S}

Reverse(q) == [i \in DOMAIN q |-> q[Len(q) + 1 - i]]

\* the listings of a directory holding at most n of the files of `all`: the
\* files in the order of `all`, or in the opposite order
Listings(all, n) ==
    LET picks == {I \in SUBSET DOMAIN all : Cardinality(I) <= n}
        InOrder(I) == SelectSeq(all, LAMBDA f : \E i \in I : all[i] = f)
    IN  {InOrder(I) : I \in picks} \cup {Reverse(InOrder(I)) : I \in picks}

(* ------------------------------------------------------------------ *)
(* State                                                                *)
(* ------------------------------------------------------------------ *)
VARIABLES
    postsDir,          \* CONTENT_POSTS: its files, in the order the directory lists them
    pagesDir,          \* CONTENT_PAGES, likewise
    staticDir,         \* static/: the names of its regular files
    imagesDirExists,   \* static/images is a directory
    imagesDir,         \* static/images: its entries, in the order the directory lists them
    pluginsDirExists,  \* PLUGINS_DIR exists
    PLUGINS,           \* the plugins the configuration lists
    POSTS_PER_PAGE,
    clock,             \* what datetime.now() last returned
    pc,                \* the step main() is about to perform
    runs,              \* how many times main() was started
    fs,                \* OUTPUT_DIR: path -> content
    env,               \* the Environment load_templates returns
    posts,             \* the list render_posts returns
    all_tags_data,     \* the dict collect_all_tags_data returns, in insertion order
    trace,             \* the steps of the current run, in the order performed
    wlog,              \* <<step, path>> of every file written in the current run
    log,               \* the names the date warning was printed for
    firstTree,         \* OUTPUT_DIR as the first completed run left it
    html,              \* the argument of a call of apply_responsive_images
    rewritten,         \* what the call returned
    rw_pc              \* the position of the call: "idle", "call" or "return"

inputs == <<postsDir, pagesDir, staticDir, imagesDirExists, imagesDir,
            pluginsDirExists, PLUGINS, POSTS_PER_PAGE>>
vars == <<postsDir, pagesDir, staticDir, imagesDirExists, imagesDir,
          pluginsDirExists, PLUGINS, POSTS_PER_PAGE,
          clock, pc, runs, fs, env, posts, all_tags_data, trace, wlog, log, firstTree,
          html, rewritten, rw_pc>>

\* the state of a call of apply_responsive_images
markup == <<html, rewritten, rw_pc>>

EmptyFs == [p \in {} |-> <<>>]
EmptyEnv == [plugins_head |-> <<>>, plugins_body |-> <<>>]

\* a sequence of <<path, content>> written in order into f
RECURSIVE ApplyWrites(_, _)
ApplyWrites(f, ws) ==
    IF ws = <<>> THEN f
    ELSE LET w == Head(ws)
             g == [q \in DOMAIN f \cup {w[1]} |-> IF q = w[1] THEN w[2] ELSE f[q]]
         IN  ApplyWrites(g, Tail(ws))

Logged(step, ws) == [i \in DOMAIN ws |-> <<step, ws[i][1]>>]

\* flatten a sequence of sequences
RECURSIVE Concat(_)
Concat(ss) == IF ss = <<>> THEN <<>> ELSE Head(ss) \o Concat(Tail(ss))

(* ------------------------------------------------------------------ *)
(* main(): the order of its statements                                  *)
(* ------------------------------------------------------------------ *)
MainSteps == <<"ensure_templates", "load_templates", "clear_output",
               "copy_global_static", "optimize_images", "copy_plugin_static",
               "render_pages", "render_posts", "collect_all_tags_data",
               "render_tag_pages", "render_tags_list_page", "render_index",
               "render_index_markdown">>

StepIndex(step) == CHOOSE i \in DOMAIN MainSteps : MainSteps[i] = step

NextStepSwapped(step) ==
    IF step = "render_posts" THEN "render_index"
    ELSE IF step = "render_index" THEN "collect_all_tags_data"
    ELSE IF step = "render_tags_list_page" THEN "render_index_markdown"
    ELSE IF StepIndex(step) = Len(MainSteps) THEN "done"
    ELSE MainSteps[StepIndex(step) + 1]

\* the statement main() performs after `step`
NextStep(step) ==
    IF StepIndex(step) = Len(MainSteps) THEN "done" ELSE MainSteps[StepIndex(step) + 1]

\* what every step does to the position and the trace
Advance(step) ==
    /\ pc = step
    /\ pc' = NextStep(step)
    /\ trace' = Append(trace, step)

(* ------------------------------------------------------------------ *)
(* load_plugins, copy_plugin_static                                     *)
(* ------------------------------------------------------------------ *)
Snippet(name, which) == [plugin |-> name, file |-> which]

load_pluginsAllOnDisk(names) ==
    [head |-> Concat([i \in DOMAIN names |-> <<Snippet(names[i], "head.html")>>]),
     body |-> Concat([i \in DOMAIN names |-> <<Snippet(names[i], "body.html")>>])]

load_plugins(names) ==
    IF ~pluginsDirExists THEN [head |-> <<>>, body |-> <<>>]
    ELSE [head |-> Concat([i \in DOMAIN names |->
                     IF PluginDisk(names[i]).isdir /\ PluginDisk(names[i]).head
                     THEN <<Snippet(names[i], "head.html")>> ELSE <<>>]),
          body |-> Concat([i \in DOMAIN names |->
                     IF PluginDisk(names[i]).isdir /\ PluginDisk(names[i]).body
                     THEN <<Snippet(names[i], "body.html")>> ELSE <<>>])]

\* the writes of copy_plugin_static: the static tree of a plugin is one entry
PluginStaticWrites(names) ==
    IF ~pluginsDirExists THEN <<>>
    ELSE Concat([i \in DOMAIN names |->
            IF PluginDisk(names[i]).static
            THEN <<<<S_plugins \o names[i], [kind |-> "plugin_static", src |-> names[i]]>>>>
            ELSE <<>>])

(* ------------------------------------------------------------------ *)
(* copy_global_static, optimize_images                                  *)
(* ------------------------------------------------------------------ *)
\* static/images lies under static/, so copytree copies it to images/ as well
GlobalStaticWrites ==
    [i \in DOMAIN staticDir |-> <<staticDir[i], [kind |-> "static", src |-> staticDir[i]]>>]
    \o (IF imagesDirExists
        THEN [i \in DOMAIN imagesDir |->
                <<S_images \o imagesDir[i].name,
                  [kind |-> "static", src |-> imagesDir[i].name]>>]
        ELSE <<>>)

VariantPath(img, label) == S_images \o Stem(img.name) \o label \o Suffix(img.name)

\* one iteration of the loop of optimize_images: its writes, and whether it raised
ImageStep(img) ==
    IF img.data = "dir" THEN [writes |-> <<>>, raised |-> FALSE]
    ELSE LET copy == <<S_images \o img.name, [kind |-> "image_copy", src |-> img.name]>>
         IN  IF Lower(Suffix(img.name)) \notin ImageSuffixes
             THEN [writes |-> <<copy>>, raised |-> FALSE]
             ELSE IF img.data = "unidentified"
             THEN [writes |-> <<copy>>, raised |-> FALSE]
             ELSE IF img.data = "truncated"
             THEN [writes |-> <<copy>>, raised |-> TRUE]
             ELSE [writes |-> <<copy,
                                <<VariantPath(img, S_mobile),
                                  [kind |-> "image_variant", src |-> img.name]>>,
                                <<VariantPath(img, S_desktop),
                                  [kind |-> "image_variant", src |-> img.name]>>>>,
                   raised |-> FALSE]

\* the loop: the writes up to and including the iteration that raised
RECURSIVE ImageLoop(_)
ImageLoop(imgs) ==
    IF imgs = <<>> THEN [writes |-> <<>>, raised |-> FALSE]
    ELSE LET one == ImageStep(Head(imgs))
         IN  IF one.raised THEN one
             ELSE LET rest == ImageLoop(Tail(imgs))
                  IN  [writes |-> one.writes \o rest.writes, raised |-> rest.raised]

optimize_images ==
    IF ~imagesDirExists THEN [writes |-> <<>>, raised |-> FALSE] ELSE ImageLoop(imagesDir)

(* ------------------------------------------------------------------ *)
(* render_pages, render_posts                                           *)
(* ------------------------------------------------------------------ *)
\* Path.glob('*.md')
GlobMd(dir) == SelectSeq(dir, LAMBDA f : EndsWith(f.name, S_md))

\* markdown.markdown: the external renderer, applied to the lines it is given
markdown(lines) == [html_of |-> lines]

\* str.lstrip('# ')
RECURSIVE LStripHash(_)
LStripHash(s) ==
    IF s # <<>> /\ Head(s) \in {"#", " "} THEN LStripHash(Tail(s)) ELSE s

\* the title: the first line when it is a heading, else the fallback
TitleOf(lines, fallback) ==
    IF lines # <<>> /\ StartsWith(lines[1], <<"#">>)
    THEN Strip(LStripHash(lines[1])) ELSE fallback

HasTagLine(lines) == lines # <<>> /\ StartsWith(Lower(lines[1]), S_tags_colon)

\* [tag.strip().lower() for tag in tag_line.split(',') if tag.strip()]
ParseTags(lines) ==
    IF HasTagLine(lines)
    THEN LET tag_line == Strip(SubSeq(lines[1], Len(S_tags_colon) + 1, Len(lines[1])))
             fields == Split(tag_line, ",")
             kept == SelectSeq(fields, LAMBDA t : Strip(t) # <<>>)
         IN  [i \in DOMAIN kept |-> Lower(Strip(kept[i]))]
    ELSE <<>>

ContentLines(lines) == IF HasTagLine(lines) THEN Tail(lines) ELSE lines

PostUrl(f) == S_posts \o Stem(f.name) \o S_html

\* the date of a post file: <<parsed, datetime>>
PostDate(f) == strptime(Prefix(Stem(f.name), 10))

NeedsNow(f) == ~PostDate(f)[1]

\* among files[1..i], how many take the current time as their date
RECURSIVE NowRank(_, _)
NowRank(files, i) ==
    IF i = 0 THEN 0 ELSE NowRank(files, i - 1) + (IF NeedsNow(files[i]) THEN 1 ELSE 0)

\* post_data of one file; now is what datetime.now() returns if it is called
PostData(f, now) ==
    [title |-> TitleOf(ContentLines(f.lines), Stem(f.name)),
     date |-> IF PostDate(f)[1] THEN PostDate(f)[2] ELSE now,
     url |-> PostUrl(f),
     tags |-> ParseTags(f.lines),
     content |-> markdown(ContentLines(f.lines))]

\* the two files render_posts writes for one post
PostWritesNoCopy(f, pd) ==
    << <<pd.url, [kind |-> "post", title |-> pd.title, date |-> strftime(pd.date),
                  content |-> pd.content, tags |-> pd.tags]>> >>

PostWrites(f, pd) ==
    << <<pd.url, [kind |-> "post", title |-> pd.title, date |-> strftime(pd.date),
                  content |-> pd.content, tags |-> pd.tags]>>,
       <<S_posts \o f.name, [kind |-> "copy", src |-> f.name, lines |-> f.lines]>> >>

\* the two files render_pages writes for one page
PageWrites(f) ==
    << <<Stem(f.name) \o S_html,
         [kind |-> "page", title |-> TitleOf(f.lines, TitleCase(Stem(f.name))),
          content |-> markdown(f.lines)]>>,
       <<S_pages \o f.name, [kind |-> "copy", src |-> f.name, lines |-> f.lines]>> >>

Nondecreasing(ts) == \A i, j \in DOMAIN ts : i < j => ~DtLess(ts[j], ts[i])

(* ------------------------------------------------------------------ *)
(* collect_all_tags_data, render_tag_pages, render_tags_list_page       *)
(* ------------------------------------------------------------------ *)
PostSummary(post) == [title |-> post.title, url |-> post.url, date |-> post.date]

HasSlug(td, slug) == \E i \in DOMAIN td : td[i].slug = slug

AddTagNoMerge(td, tag_name, summary) ==
    Append(td, [slug |-> slugify(tag_name), name |-> tag_name,
                posts |-> <<summary>>, count |-> 1])

\* an entry that takes the name of every tag that reaches it
AddTagLastName(td, tag_name, summary) ==
    LET slug == slugify(tag_name)
        td1 == IF HasSlug(td, slug) THEN td
               ELSE Append(td, [slug |-> slug, name |-> tag_name, posts |-> <<>>, count |-> 0])
    IN  [i \in DOMAIN td1 |->
            IF td1[i].slug = slug
            THEN [slug |-> slug, name |-> tag_name,
                  posts |-> Append(td1[i].posts, summary), count |-> td1[i].count + 1]
            ELSE td1[i]]

\* lines 334-338: create the entry on first sight, append the summary, count
AddTag(td, tag_name, summary) ==
    LET slug == slugify(tag_name)
        td1 == IF HasSlug(td, slug) THEN td
               ELSE Append(td, [slug |-> slug, name |-> tag_name, posts |-> <<>>, count |-> 0])
    IN  [i \in DOMAIN td1 |->
            IF td1[i].slug = slug
            THEN [td1[i] EXCEPT !.posts = Append(@, summary), !.count = @ + 1]
            ELSE td1[i]]

RECURSIVE AddTags(_, _, _)
AddTags(td, tags, summary) ==
    IF tags = <<>> THEN td
    ELSE AddTags(AddTag(td, Head(tags), summary), Tail(tags), summary)

RECURSIVE AddPosts(_, _)
AddPosts(td, ps) ==
    IF ps = <<>> THEN td
    ELSE AddPosts(AddTags(td, Head(ps).tags, PostSummary(Head(ps))), Tail(ps))

collect_all_tags_data(ps) ==
    LET td == AddPosts(<<>>, ps)
    IN  [i \in DOMAIN td |-> [td[i] EXCEPT !.posts = SortByDateDesc(@)]]

TagPageWrites(td) ==
    [i \in DOMAIN td |->
        <<S_tags \o td[i].slug \o S_html,
          [kind |-> "tag", tag_name |-> td[i].name,
           posts |-> [j \in DOMAIN td[i].posts |->
                        [title |-> td[i].posts[j].title, url |-> td[i].posts[j].url,
                         date |-> td[i].posts[j].date,
                         date_str |-> strftime(td[i].posts[j].date)]]]>>]

tags_for_list_page(td) ==
    SortByName([i \in DOMAIN td |->
        [name |-> td[i].name, url |-> S_tags \o slugify(td[i].name) \o S_html,
         count |-> td[i].count]])

TagsListWrites(td) ==
    << <<S_tags_html, [kind |-> "tags_list", tags |-> tags_for_list_page(td)]>> >>

(* ------------------------------------------------------------------ *)
(* render_index, render_index_markdown                                  *)
(* ------------------------------------------------------------------ *)
total_pages(n) == (n + POSTS_PER_PAGE - 1) \div POSTS_PER_PAGE

\* posts[start:end], 0-based and clipped as Python slices are
Slice(s, start, end) ==
    LET hi == IF end < Len(s) THEN end ELSE Len(s)
    IN  IF start >= hi THEN <<>> ELSE SubSeq(s, start + 1, hi)

posts_meta(ps) ==
    [i \in DOMAIN ps |-> [title |-> ps[i].title, date |-> strftime(ps[i].date),
                          url |-> ps[i].url]]

IndexTitle(page_num) ==
    IF page_num = 1 THEN <<"H","o","m","e">> ELSE <<"H","o","m","e"," ","-"," ","P","a","g","i","n","a"," ">> \o IntStr(page_num)

IndexPath(page_num) ==
    IF page_num = 1 THEN S_index_html ELSE S_page \o IntStr(page_num) \o S_html

IndexWritesShortSlice(ps) ==
    [k \in 1..total_pages(Len(ps)) |->
        <<IndexPath(k),
          [kind |-> "index", title |-> IndexTitle(k),
           posts |-> posts_meta(Slice(ps, (k - 1) * POSTS_PER_PAGE,
                                          (k - 1) * POSTS_PER_PAGE + POSTS_PER_PAGE - 1)),
           current_page |-> k, total_pages |-> total_pages(Len(ps))]>>]

IndexWrites(ps) ==
    [k \in 1..total_pages(Len(ps)) |->
        <<IndexPath(k),
          [kind |-> "index", title |-> IndexTitle(k),
           posts |-> posts_meta(Slice(ps, (k - 1) * POSTS_PER_PAGE,
                                          (k - 1) * POSTS_PER_PAGE + POSTS_PER_PAGE)),
           current_page |-> k, total_pages |-> total_pages(Len(ps))]>>]

IndexMarkdownWrites(ps) ==
    << <<S_index_md,
         [kind |-> "index_md",
          lines |-> [i \in DOMAIN ps |-> [title |-> ps[i].title, url |-> ps[i].url,
                                          date |-> strftime(ps[i].date)]]]>> >>

\* render_posts over the globbed files; ts are the values datetime.now() returns,
\* one for each file whose date does not parse, in the order they are read
render_posts(files, ts) ==
    LET pds == [i \in DOMAIN files |->
                  PostData(files[i],
                           IF NeedsNow(files[i]) THEN ts[NowRank(files, i)] ELSE <<>>)]
        warned == SelectSeq(files, NeedsNow)
    IN  [posts |-> SortByDateDesc(pds),
         writes |-> Concat([i \in DOMAIN files |-> PostWrites(files[i], pds[i])]),
         warnings |-> [i \in DOMAIN warned |-> warned[i].name]]

(* ------------------------------------------------------------------ *)
(* apply_responsive_images (generate_site.py 172-191)                   *)
(* ------------------------------------------------------------------ *)
S_img_open == <<"<","i","m","g">>
S_src_eq == <<"s","r","c","=","\"">>

\* the first index at or after `from` whose character is in cs, 0 when there is none
FirstOf(s, from, cs) ==
    LET hits == {k \in from..Len(s) : s[k] \in cs}
    IN  IF hits = {} THEN 0 ELSE CHOOSE k \in hits : \A m \in hits : k <= m

\* the text p stands at index i of s
HasAt(s, i, p) == i + Len(p) - 1 <= Len(s) /\ SubSeq(s, i, i + Len(p) - 1) = p

\* the indices where src="images/ can start in a match of the pattern that begins
\* at i and ends at close: [^">]+ runs to the next quote or bracket, which has to
\* be the quote, and has to take at least one character
SrcStarts(s, i, close) ==
    {j \in (i + Len(S_img_open) + 1)..close :
        /\ HasAt(s, j, S_src_eq \o S_images)
        /\ LET v == j + Len(S_src_eq \o S_images)
               q == FirstOf(s, v, {"\"", ">"})
           IN  q > v /\ s[q] = "\""}

\* the match of <img([^>]+)src="(?P<src>images/[^">]+)"([^>]*)> that begins at i:
\* no part of the pattern takes a ">" before the last one, so the match ends at
\* the first ">" after <img, and the greedy [^>]+ takes the last src="images/ that
\* lets the rest match
MatchAt(s, i) ==
    IF ~HasAt(s, i, S_img_open) THEN [ok |-> FALSE]
    ELSE LET close == FirstOf(s, i + Len(S_img_open), {">"})
             js == IF close = 0 THEN {} ELSE SrcStarts(s, i, close)
         IN  IF js = {} THEN [ok |-> FALSE]
             ELSE LET j == CHOOSE k \in js : \A m \in js : m <= k
                      v == j + Len(S_src_eq \o S_images)
                      q == FirstOf(s, v, {"\"", ">"})
                  IN  [ok |-> TRUE,
                       g1 |-> SubSeq(s, i + Len(S_img_open), j - 1),
                       src |-> SubSeq(s, j + Len(S_src_eq), q - 1),
                       g3 |-> SubSeq(s, q + 1, close - 1),
                       end |-> close]

\* Path(p).name: the last component of the path, trailing slashes dropped, for
\* a relative path without "." components
PathName(p) ==
    LET named == {k \in DOMAIN p : p[k] # "/"}
        t == SubSeq(p, 1, CHOOSE k \in named : \A m \in named : m <= k)
        slashes == {k \in DOMAIN t : t[k] = "/"}
        last == IF slashes = {} THEN 0 ELSE CHOOSE k \in slashes : \A m \in slashes : m <= k
    IN  SubSeq(t, last + 1, Len(t))

\* os.path.splitext of a name without a slash: the extension starts at the last
\* dot, unless only dots stand before it
splitext(name) ==
    LET d == LastDot(name)
    IN  IF d > 0 /\ \E k \in 1..(d - 1) : name[k] # "."
        THEN <<SubSeq(name, 1, d - 1), SubSeq(name, d, Len(name))>>
        ELSE <<name, <<>>>>

\* repl: the tag that replaces a match
repl(match) ==
    LET stem == splitext(PathName(match.src))[1]
        ext == splitext(PathName(match.src))[2]
        srcset == S_images \o stem \o S_mobile \o ext \o <<" ","4","8","0","w",","," ">>
                  \o S_images \o stem \o S_desktop \o ext \o <<" ","1","2","8","0","w",","," ">>
                  \o S_images \o stem \o ext \o <<" ","1","9","2","0","w">>
    IN  S_img_open \o match.g1 \o S_src_eq \o S_images \o stem \o S_mobile \o ext
        \o <<"\""," ","s","r","c","s","e","t","=","\"">> \o srcset
        \o <<"\""," ","s","i","z","e","s","=","\"","(","m","a","x","-","w","i","d","t","h",":"," ","6","0","0","p","x",")"," ","4","8","0","p","x",","," ","1","2","8","0","p","x","\"">> \o match.g3 \o <<">">>

\* pattern.sub from index pos on: the leftmost match is replaced and the scan
\* goes on after its end
RECURSIVE SubFrom(_, _)
SubFrom(s, pos) ==
    LET starts == {i \in pos..Len(s) : MatchAt(s, i).ok}
    IN  IF starts = {} THEN SubSeq(s, pos, Len(s))
        ELSE LET i == CHOOSE k \in starts : \A m \in starts : k <= m
                 match == MatchAt(s, i)
             IN  SubSeq(s, pos, i - 1) \o repl(match) \o SubFrom(s, match.end + 1)

apply_responsive_images(s) == SubFrom(s, 1)

\* HTML that reaches apply_responsive_images: what markdown renders and the raw
\* HTML of a document, which markdown passes through
FragmentPool ==
    \* <p>see images/cat.png</p>
    {<<"<","p",">","s","e","e"," ","i","m","a","g","e","s","/","c","a","t",".","p","n","g","<","/","p",">">>,
     \* <img src="images/cat.png">
     <<"<","i","m","g"," ","s","r","c","=","\"","i","m","a","g","e","s","/","c","a","t",".","p","n","g","\"",">">>,
     \* <img alt="x" src="images/cat.png" class="y" />
     <<"<","i","m","g"," ","a","l","t","=","\"","x","\""," ","s","r","c","=","\"","i","m","a","g","e","s","/","c","a","t",".","p","n","g","\""," ","c","l","a","s","s","=","\"","y","\""," ","/",">">>,
     \* <img class="z" src="images/b.JPG">
     <<"<","i","m","g"," ","c","l","a","s","s","=","\"","z","\""," ","s","r","c","=","\"","i","m","a","g","e","s","/","b",".","J","P","G","\"",">">>,
     \* <img src="images/cat">
     <<"<","i","m","g"," ","s","r","c","=","\"","i","m","a","g","e","s","/","c","a","t","\"",">">>,
     \* <img src="pics/cat.png">
     <<"<","i","m","g"," ","s","r","c","=","\"","p","i","c","s","/","c","a","t",".","p","n","g","\"",">">>,
     \* <a href="images/cat.png">
     <<"<","a"," ","h","r","e","f","=","\"","i","m","a","g","e","s","/","c","a","t",".","p","n","g","\"",">">>,
     \* <img src="images/a.png" data-src="images/b.png">
     <<"<","i","m","g"," ","s","r","c","=","\"","i","m","a","g","e","s","/","a",".","p","n","g","\""," ","d","a","t","a","-","s","r","c","=","\"","i","m","a","g","e","s","/","b",".","p","n","g","\"",">">>,
     \* <img data-src="images/b.png" src="pics/a.png">
     <<"<","i","m","g"," ","d","a","t","a","-","s","r","c","=","\"","i","m","a","g","e","s","/","b",".","p","n","g","\""," ","s","r","c","=","\"","p","i","c","s","/","a",".","p","n","g","\"",">">>,
     \* <img src="images/sub/cat.png">
     <<"<","i","m","g"," ","s","r","c","=","\"","i","m","a","g","e","s","/","s","u","b","/","c","a","t",".","p","n","g","\"",">">>}

(* ------------------------------------------------------------------ *)
(* Initial states: the inputs after the module has been imported, which *)
(* leaves content/pages and content/posts non-empty (lines 53-61)       *)
(* ------------------------------------------------------------------ *)
ClockStart == CHOOSE t \in Times : \A u \in Times : ~DtLess(u, t)

StaleTree == [q \in StalePool |-> [kind |-> "stale", src |-> q]]

InitState ==
    /\ clock = ClockStart
    /\ pc = "idle"
    /\ runs = 0
    /\ env = EmptyEnv
    /\ posts = <<>>
    /\ all_tags_data = <<>>
    /\ trace = <<>>
    /\ wlog = <<>>
    /\ log = <<>>
    /\ firstTree = EmptyFs

\* the posts and the page size vary
InitContent ==
    /\ postsDir \in Listings(PostPool, MaxPosts) \ {<<>>}
    /\ POSTS_PER_PAGE \in 1..MaxPerPage
    /\ pagesDir = <<PageAbout>>
    /\ staticDir = <<StaticCss>>
    /\ imagesDirExists = FALSE
    /\ imagesDir = <<>>
    /\ pluginsDirExists = TRUE
    /\ PLUGINS = <<>>
    /\ fs = EmptyFs

\* the pages, the static files and what the output directory holds vary
InitSite ==
    /\ postsDir \in {<<PostF>>, <<PostA>>}
    /\ POSTS_PER_PAGE = MaxPerPage
    /\ pagesDir \in {<<PageAbout>>, <<PageAbout, PageIndex>>}
    /\ staticDir \in {<<StaticCss>>, <<StaticCss, StaticIndex>>}
    /\ imagesDirExists = FALSE
    /\ imagesDir = <<>>
    /\ pluginsDirExists = TRUE
    /\ PLUGINS = <<>>
    /\ fs \in {EmptyFs, StaleTree}

\* the images vary
InitImages ==
    /\ postsDir = <<PostA>>
    /\ POSTS_PER_PAGE = MaxPerPage
    /\ pagesDir = <<PageAbout>>
    /\ staticDir = <<StaticCss>>
    /\ imagesDirExists \in BOOLEAN
    /\ imagesDir \in IF imagesDirExists THEN Listings(ImagePool, MaxImages) ELSE {<<>>}
    /\ pluginsDirExists = TRUE
    /\ PLUGINS = <<>>
    /\ fs = StaleTree

\* the plugins vary
InitPlugins ==
    /\ postsDir = <<PostA>>
    /\ POSTS_PER_PAGE = MaxPerPage
    /\ pagesDir = <<PageAbout>>
    /\ staticDir = <<StaticCss>>
    /\ imagesDirExists = FALSE
    /\ imagesDir = <<>>
    /\ pluginsDirExists \in BOOLEAN
    /\ PLUGINS \in SeqsUpTo(PluginNames, MaxPlugins)
    /\ fs = EmptyFs

\* no call of apply_responsive_images is followed on its own in a run of main()
NoMarkup ==
    /\ html = <<>>
    /\ rewritten = <<>>
    /\ rw_pc = "idle"

Init == InitState /\ NoMarkup /\ (InitContent \/ InitSite \/ InitImages \/ InitPlugins)

(* ------------------------------------------------------------------ *)
(* Actions                                                              *)
(* ------------------------------------------------------------------ *)
\* main() is called
Main ==
    /\ pc \in {"idle", "done", "aborted"}
    /\ runs < MaxRuns
    /\ runs' = runs + 1
    /\ pc' = MainSteps[1]
    /\ env' = EmptyEnv
    /\ posts' = <<>>
    /\ all_tags_data' = <<>>
    /\ trace' = <<>>
    /\ wlog' = <<>>
    /\ log' = <<>>
    /\ UNCHANGED <<inputs, markup, clock, fs, firstTree>>

\* ensure_templates: the templates directory and the required templates are there
EnsureTemplates ==
    /\ Advance("ensure_templates")
    /\ UNCHANGED <<inputs, markup, clock, runs, fs, env, posts, all_tags_data, wlog, log, firstTree>>

LoadTemplates ==
    /\ Advance("load_templates")
    /\ env' = [plugins_head |-> load_plugins(PLUGINS).head,
               plugins_body |-> load_plugins(PLUGINS).body]
    /\ UNCHANGED <<inputs, markup, clock, runs, fs, posts, all_tags_data, wlog, log, firstTree>>

ClearOutputKeep(f) == f

\* shutil.rmtree(OUTPUT_DIR) if it exists, then mkdir
ClearedOutput(f) == EmptyFs

ClearOutput ==
    /\ Advance("clear_output")
    /\ fs' = ClearedOutput(fs)
    /\ UNCHANGED <<inputs, markup, clock, runs, env, posts, all_tags_data, wlog, log, firstTree>>

\* a step that only writes files
WriteStep(step, ws) ==
    /\ Advance(step)
    /\ fs' = ApplyWrites(fs, ws)
    /\ wlog' = wlog \o Logged(step, ws)

CopyGlobalStatic ==
    /\ WriteStep("copy_global_static", GlobalStaticWrites)
    /\ UNCHANGED <<inputs, markup, clock, runs, env, posts, all_tags_data, log, firstTree>>

\* an exception that leaves optimize_images leaves main() too
OptimizeImages ==
    /\ pc = "optimize_images"
    /\ trace' = Append(trace, "optimize_images")
    /\ LET r == optimize_images
       IN  /\ pc' = IF r.raised THEN "aborted" ELSE NextStep("optimize_images")
           /\ fs' = ApplyWrites(fs, r.writes)
           /\ wlog' = wlog \o Logged("optimize_images", r.writes)
    /\ UNCHANGED <<inputs, markup, clock, runs, env, posts, all_tags_data, log, firstTree>>

CopyPluginStatic ==
    /\ WriteStep("copy_plugin_static", PluginStaticWrites(PLUGINS))
    /\ UNCHANGED <<inputs, markup, clock, runs, env, posts, all_tags_data, log, firstTree>>

RenderPages ==
    /\ WriteStep("render_pages",
                 Concat([i \in DOMAIN GlobMd(pagesDir) |-> PageWrites(GlobMd(pagesDir)[i])]))
    /\ UNCHANGED <<inputs, markup, clock, runs, env, posts, all_tags_data, log, firstTree>>

RenderPosts ==
    /\ pc = "render_posts"
    /\ LET files == GlobMd(postsDir)
           k == NowRank(files, Len(files))
       IN  \E ts \in [1..k -> Times] :
            /\ Nondecreasing(ts)
            /\ k > 0 => ~DtLess(ts[1], clock)
            /\ LET r == render_posts(files, ts)
               IN  /\ WriteStep("render_posts", r.writes)
                   /\ posts' = r.posts
                   /\ log' = log \o r.warnings
            /\ clock' = IF k > 0 THEN ts[k] ELSE clock
            /\ UNCHANGED <<inputs, markup, runs, env, all_tags_data, firstTree>>

CollectAllTagsData ==
    /\ Advance("collect_all_tags_data")
    /\ all_tags_data' = collect_all_tags_data(posts)
    /\ UNCHANGED <<inputs, markup, clock, runs, fs, env, posts, wlog, log, firstTree>>

RenderTagPages ==
    /\ WriteStep("render_tag_pages", TagPageWrites(all_tags_data))
    /\ UNCHANGED <<inputs, markup, clock, runs, env, posts, all_tags_data, log, firstTree>>

RenderTagsListPage ==
    /\ WriteStep("render_tags_list_page", TagsListWrites(all_tags_data))
    /\ UNCHANGED <<inputs, markup, clock, runs, env, posts, all_tags_data, log, firstTree>>

RenderIndex ==
    /\ WriteStep("render_index", IndexWrites(posts))
    /\ UNCHANGED <<inputs, markup, clock, runs, env, posts, all_tags_data, log, firstTree>>

\* the last statement of main(): the run is complete
RenderIndexMarkdown ==
    /\ WriteStep("render_index_markdown", IndexMarkdownWrites(posts))
    /\ firstTree' = IF runs = 1 THEN fs' ELSE firstTree
    /\ UNCHANGED <<inputs, markup, clock, runs, env, posts, all_tags_data, log>>

Next ==
    \/ Main
    \/ EnsureTemplates
    \/ LoadTemplates
    \/ ClearOutput
    \/ CopyGlobalStatic
    \/ OptimizeImages
    \/ CopyPluginStatic
    \/ RenderPages
    \/ RenderPosts
    \/ CollectAllTagsData
    \/ RenderTagPages
    \/ RenderTagsListPage
    \/ RenderIndex
    \/ RenderIndexMarkdown

Spec == Init /\ [][Next]_vars

(* ------------------------------------------------------------------ *)
(* apply_responsive_images on its own: a document goes in, the call     *)
(* returns                                                              *)
(* ------------------------------------------------------------------ *)
InitRewrite ==
    /\ InitState
    /\ postsDir = <<PostA>>
    /\ POSTS_PER_PAGE = MaxPerPage
    /\ pagesDir = <<PageAbout>>
    /\ staticDir = <<StaticCss>>
    /\ imagesDirExists = FALSE
    /\ imagesDir = <<>>
    /\ pluginsDirExists = TRUE
    /\ PLUGINS = <<>>
    /\ fs = EmptyFs
    /\ html \in {Concat(parts) : parts \in SeqsUpTo(FragmentPool, MaxFragments)}
    /\ rewritten = <<>>
    /\ rw_pc = "call"

ApplyResponsiveImages ==
    /\ rw_pc = "call"
    /\ rewritten' = apply_responsive_images(html)
    /\ rw_pc' = "return"
    /\ UNCHANGED <<html, inputs, clock, pc, runs, fs, env, posts, all_tags_data,
                   trace, wlog, log, firstTree>>

SpecRewrite == InitRewrite /\ [][ApplyResponsiveImages]_vars

(* ------------------------------------------------------------------ *)
(* Properties                                                           *)
(* ------------------------------------------------------------------ *)
\* the step has been performed in the current run
Did(step) == \E i \in DOMAIN trace : trace[i] = step

\* the paths the step wrote in the current run, in order
WrittenBy(step) ==
    LET w == SelectSeq(wlog, LAMBDA e : e[1] = step)
    IN  [i \in DOMAIN w |-> w[i][2]]

WriteCount(path) == Cardinality({i \in DOMAIN wlog : wlog[i][2] = path})

Urls(ps) == [i \in DOMAIN ps |-> ps[i].url]

\* the names of the Markdown files of content/posts, in listing order
MdNames ==
    LET md == SelectSeq(postsDir, LAMBDA f : EndsWith(f.name, <<".","m","d">>))
    IN  [i \in DOMAIN md |-> md[i].name]

\* posts/<stem>.html of a Markdown file name
HtmlOf(name) == <<"p","o","s","t","s","/">> \o SubSeq(name, 1, Len(name) - 3) \o <<".","h","t","m","l">>

\* ---- C1 ----
C1_PagePath(k) ==
    IF k = 1 THEN <<"i","n","d","e","x",".","h","t","m","l">>
    ELSE <<"p","a","g","e","/">> \o <<DigitChars[k + 1]>> \o <<".","h","t","m","l">>

\* C1: render_index writes ceil(total_posts / POSTS_PER_PAGE) pages, page p
\* holding the slice [(p-1)*N, p*N) of the post list, so that the pages in order
\* give the post list exactly once; page 1 is index.html, page p > 1 is
\* page/<p>.html, and there is no page file beyond the last page.
C1_PaginationPartitions ==
    Did("render_index") =>
        LET n == Len(posts)
            N == POSTS_PER_PAGE
            paths == WrittenBy("render_index")
            K == Len(paths)
        IN  /\ K * N >= n
            /\ K > 0 => (K - 1) * N < n
            /\ \A k \in 1..K :
                /\ paths[k] = C1_PagePath(k)
                /\ fs[paths[k]].kind = "index"
                /\ fs[paths[k]].current_page = k
                /\ fs[paths[k]].total_pages = K
                /\ Urls(fs[paths[k]].posts) =
                     [i \in 1..(IF k * N <= n THEN N ELSE n - (k - 1) * N) |->
                        posts[(k - 1) * N + i].url]
            /\ Concat([k \in 1..K |-> Urls(fs[paths[k]].posts)]) = Urls(posts)
            /\ \A q \in DOMAIN fs :
                  StartsWith(q, <<"p","a","g","e","/">>) => \E k \in 2..K : q = paths[k]

C1_Witness ==
    /\ Did("render_index")
    /\ Len(posts) = 3
    /\ POSTS_PER_PAGE = 2
    /\ <<"p","a","g","e","/","2",".","h","t","m","l">> \in DOMAIN fs
    /\ Len(fs[<<"p","a","g","e","/","2",".","h","t","m","l">>].posts) = 1

\* ---- C2 ----
\* C2: after every completed run index.html exists in the output directory,
\* also when there are no posts.
C2_IndexAlwaysExists == pc = "done" => <<"i","n","d","e","x",".","h","t","m","l">> \in DOMAIN fs

\* ---- C3 ----
\* the slug of each tag of the post files, worked out by hand
C3_SlugOf(tag) ==
    CASE tag = <<"g","o">> -> <<"g","o">>
      [] tag = <<"r","u","s","t">> -> <<"r","u","s","t">>
      [] tag = <<"c","+","+">> -> <<"c">>
      [] tag = <<"c">> -> <<"c">>
      [] tag = <<"g","o","!">> -> <<"g","o">>

\* the (post, tag) occurrences whose tag has the slug
C3_Occurrences(slug) ==
    {o \in UNION {{<<a, b>> : b \in DOMAIN posts[a].tags} : a \in DOMAIN posts} :
        C3_SlugOf(posts[o[1]].tags[o[2]]) = slug}

\* C3: collect_all_tags_data returns one entry per distinct slugified tag; every
\* (post, tag) occurrence is recorded in the entry of the tag's slug, and every
\* entry has count = len(posts).
C3_TagAggregation ==
    Did("collect_all_tags_data") =>
        LET td == all_tags_data
        IN  /\ \A i, j \in DOMAIN td : i # j => td[i].slug # td[j].slug
            /\ \A i \in DOMAIN td :
                /\ td[i].count = Len(td[i].posts)
                /\ td[i].count = Cardinality(C3_Occurrences(td[i].slug))
                /\ td[i].count > 0
                /\ \A o \in C3_Occurrences(td[i].slug) :
                      \E j \in DOMAIN td[i].posts : td[i].posts[j].url = posts[o[1]].url
            /\ \A a \in DOMAIN posts : \A b \in DOMAIN posts[a].tags :
                  \E i \in DOMAIN td : td[i].slug = C3_SlugOf(posts[a].tags[b])

C3_Witness ==
    /\ Did("collect_all_tags_data")
    /\ \E i \in DOMAIN all_tags_data :
          /\ all_tags_data[i].slug = <<"g","o">>
          /\ all_tags_data[i].count = 2
          /\ {all_tags_data[i].posts[j].url : j \in 1..2} =
                {<<"p","o","s","t","s","/","2","0","2","4","-","0","1","-","0","3","-","a",".","h","t","m","l">>, <<"p","o","s","t","s","/","2","0","2","4","-","0","1","-","0","2","-","b",".","h","t","m","l">>}

\* ---- C4 ----
\* C4: once render_posts has run, every Markdown file of the posts directory
\* has one rendered posts/<stem>.html and one verbatim copy posts/<filename>,
\* each written exactly once in the run, and one entry in the list render_posts
\* returned; this stays so through every later step.
C4_OnePagePerPost ==
    Did("render_posts") =>
        /\ Len(posts) = Len(MdNames)
        /\ \A i \in DOMAIN MdNames :
            LET name == MdNames[i]
                rendered == HtmlOf(name)
                copy == <<"p","o","s","t","s","/">> \o name
            IN  /\ rendered \in DOMAIN fs /\ fs[rendered].kind = "post"
                /\ copy \in DOMAIN fs /\ fs[copy].kind = "copy" /\ fs[copy].src = name
                /\ fs[copy].lines = (CHOOSE f \in Range(postsDir) : f.name = name).lines
                /\ WriteCount(rendered) = 1
                /\ WriteCount(copy) = 1
                /\ Cardinality({j \in DOMAIN posts : posts[j].url = rendered}) = 1

C4_Witness ==
    /\ pc = "done"
    /\ Len(MdNames) = 3
    /\ Len(postsDir) = 3

C5_InputOnly == {"static", "copy", "page", "plugin_static", "image_copy", "image_variant"}

C6_DateOf(name) ==
    CASE name = <<"2","0","2","4","-","0","1","-","0","3","-","a",".","m","d">> -> <<2024, 1, 3, 0>>
      [] name = <<"2","0","2","4","-","0","1","-","0","2","-","b",".","m","d">> -> <<2024, 1, 2, 0>>
      [] name = <<"2","0","2","4","-","0","1","-","0","2","-","c",".","m","d">> -> <<2024, 1, 2, 0>>

C6_Undated == {<<"d","r","a","f","t",".","m","d">>, <<"2","0","2","4","-","0","2","-","3","0","-","x",".","m","d">>}

\* C6: a post whose stem begins with a valid YYYY-MM-DD prefix has that date; a
\* post whose prefix does not parse raises nothing, has a warning printed, takes
\* the current time as its date and is rendered, and so are all the other posts.
C6_DateOrNow ==
    Did("render_posts") =>
        /\ pc # "aborted"
        /\ Len(posts) = Len(MdNames)
        /\ \A i \in DOMAIN MdNames :
            LET name == MdNames[i]
                post == CHOOSE q \in Range(posts) : q.url = HtmlOf(name)
            IN  /\ \E q \in Range(posts) : q.url = HtmlOf(name)
                /\ HtmlOf(name) \in DOMAIN fs
                /\ fs[HtmlOf(name)].date = <<post.date[3], post.date[2], post.date[1]>>
                /\ IF name \in C6_Undated
                   THEN /\ post.date \in Times
                        /\ ~DtLess(clock, post.date)
                        /\ \E j \in DOMAIN log : log[j] = name
                   ELSE /\ post.date = C6_DateOf(name)
                        /\ \A j \in DOMAIN log : log[j] # name

C6_Witness ==
    /\ pc = "done"
    /\ MdNames = <<<<"2","0","2","4","-","0","2","-","3","0","-","x",".","m","d">>, <<"d","r","a","f","t",".","m","d">>, <<"2","0","2","4","-","0","1","-","0","3","-","a",".","m","d">>>>
    /\ Len(posts) = 3
    /\ Len(log) = 2

\* ---- C7 ----
\* where the directory listed the post with this url
C7_Discovered(url) == CHOOSE i \in DOMAIN MdNames : HtmlOf(MdNames[i]) = url

\* C7: the list render_posts returns is a permutation of the discovered posts in
\* descending date order, posts of equal date in the order they were discovered;
\* the Markdown index, the index pages and the tag entries list the posts in
\* that same order.
C7_StableDateDescending ==
    /\ Did("render_posts") =>
        /\ Len(posts) = Len(MdNames)
        /\ {posts[i].url : i \in DOMAIN posts} = {HtmlOf(MdNames[i]) : i \in DOMAIN MdNames}
        /\ \A i, j \in DOMAIN posts : i < j =>
            /\ ~DtLess(posts[i].date, posts[j].date)
            /\ posts[i].date = posts[j].date =>
                  C7_Discovered(posts[i].url) < C7_Discovered(posts[j].url)
    /\ Did("collect_all_tags_data") =>
        \A e \in Range(all_tags_data) : \A i, j \in DOMAIN e.posts : i < j =>
            \E a, b \in DOMAIN posts :
                a <= b /\ posts[a].url = e.posts[i].url /\ posts[b].url = e.posts[j].url
    /\ pc = "done" =>
        /\ Urls(fs[<<"i","n","d","e","x",".","m","d">>].lines) = Urls(posts)
        /\ Concat([k \in DOMAIN WrittenBy("render_index") |->
                      Urls(fs[WrittenBy("render_index")[k]].posts)]) = Urls(posts)

C7_Witness ==
    /\ pc = "done"
    /\ MdNames = <<<<"2","0","2","4","-","0","1","-","0","2","-","c",".","m","d">>, <<"2","0","2","4","-","0","1","-","0","2","-","b",".","m","d">>, <<"2","0","2","4","-","0","1","-","0","3","-","a",".","m","d">>>>
    /\ Urls(posts) = <<<<"p","o","s","t","s","/","2","0","2","4","-","0","1","-","0","3","-","a",".","h","t","m","l">>, <<"p","o","s","t","s","/","2","0","2","4","-","0","1","-","0","2","-","c",".","h","t","m","l">>,
                       <<"p","o","s","t","s","/","2","0","2","4","-","0","1","-","0","2","-","b",".","h","t","m","l">>>>

\* ---- C8 ----
C8_Order == <<"clear_output", "copy_global_static", "optimize_images", "render_pages",
              "render_posts", "collect_all_tags_data", "render_tag_pages",
              "render_index", "render_index_markdown">>

C8_Pos(step) == CHOOSE i \in DOMAIN C8_Order : C8_Order[i] = step

\* C8: in every run the steps are performed once each in the order clear the
\* output root, copy static assets and generate image variants, render pages,
\* render posts, aggregate tags, render tag pages, render index pages, render
\* the plain-text index; nothing is written before the output root is cleared,
\* and tag aggregation and index rendering start after every post is rendered.
C8_StepOrder ==
    LET done == SelectSeq(trace, LAMBDA t : t \in Range(C8_Order))
    IN  /\ Len(done) <= Len(C8_Order)
        /\ done = SubSeq(C8_Order, 1, Len(done))
        /\ pc = "done" => done = C8_Order
        /\ \A i \in DOMAIN wlog :
              /\ Did("clear_output")
              /\ wlog[i][1] \in Range(C8_Order) => C8_Pos(wlog[i][1]) > 1
        /\ (Did("collect_all_tags_data") \/ Did("render_index")) =>
              \A i \in DOMAIN MdNames : HtmlOf(MdNames[i]) \in DOMAIN fs

C8_Witness ==
    /\ pc = "done"
    /\ Len(trace) = 13
    /\ Len(MdNames) = 2
    /\ Len(wlog) > 6

\* ---- C9 ----
\* C9: optimize_images copies every regular file of static/images under its
\* name, writes the -mobile and -desktop variants only for .jpg/.jpeg/.png
\* files, and an image that fails to decode is recoverable: its copy is there,
\* no exception leaves optimize_images and every other image is processed.
C9_DecodeFailureRecoverable ==
    Did("optimize_images") =>
        /\ pc # "aborted"
        /\ \A img \in Range(imagesDir) : img.data # "dir" =>
            /\ (<<"i","m","a","g","e","s","/">> \o img.name) \in DOMAIN fs
            /\ fs[<<"i","m","a","g","e","s","/">> \o img.name].kind = "image_copy"
        /\ \A q \in DOMAIN fs : fs[q].kind = "image_variant" =>
              fs[q].src \in {<<"a",".","p","n","g">>, <<"b",".","J","P","G">>}
        /\ ImgA \in Range(imagesDir) =>
              {<<"i","m","a","g","e","s","/","a","-","m","o","b","i","l","e",".","p","n","g">>, <<"i","m","a","g","e","s","/","a","-","d","e","s","k","t","o","p",".","p","n","g">>} \subseteq DOMAIN fs
        /\ ImgB \in Range(imagesDir) =>
              {<<"i","m","a","g","e","s","/","b","-","m","o","b","i","l","e",".","J","P","G">>, <<"i","m","a","g","e","s","/","b","-","d","e","s","k","t","o","p",".","J","P","G">>} \subseteq DOMAIN fs

\* ---- C10 ----
C10_HasHead(name) == pluginsDirExists /\ name \in {<<"e","x">>, <<"h","d">>}
C10_HasBody(name) == pluginsDirExists /\ name \in {<<"e","x">>, <<"c","c">>}
C10_HasStatic(name) == pluginsDirExists /\ name \in {<<"e","x">>, <<"h","d">>}

\* C10: load_plugins returns the head and body snippets of the plugins the
\* configuration lists, in configuration order, a plugin contributing the file
\* it has and nothing for a directory or file that is absent; copy_plugin_static
\* copies the static directory of each listed plugin that has one to
\* plugins/<name> and nothing else.
C10_ActivePluginsOnly ==
    /\ Did("load_templates") =>
        /\ [i \in DOMAIN env.plugins_head |-> env.plugins_head[i].plugin]
              = SelectSeq(PLUGINS, C10_HasHead)
        /\ [i \in DOMAIN env.plugins_body |-> env.plugins_body[i].plugin]
              = SelectSeq(PLUGINS, C10_HasBody)
        /\ \A i \in DOMAIN env.plugins_head : env.plugins_head[i].file = "head.html"
        /\ \A i \in DOMAIN env.plugins_body : env.plugins_body[i].file = "body.html"
    /\ Did("copy_plugin_static") =>
        \A name \in PluginNames :
            (<<"p","l","u","g","i","n","s","/">> \o name) \in DOMAIN fs
                <=> (name \in Range(PLUGINS) /\ C10_HasStatic(name))

C10_Witness ==
    /\ pc = "done"
    /\ PLUGINS = <<<<"c","c">>, <<"e","x">>>>
    /\ pluginsDirExists
    /\ Len(env.plugins_head) = 1
    /\ Len(env.plugins_body) = 2
    /\ <<"p","l","u","g","i","n","s","/","e","x">> \in DOMAIN fs
    /\ <<"p","l","u","g","i","n","s","/","c","c">> \notin DOMAIN fs

\* ---- C11 ----
\* the srcset and sizes that go with images/<name><ext>, written out by hand
C11_Cat == <<"s","r","c","s","e","t","=","\"","i","m","a","g","e","s","/","c","a","t","-","m","o","b","i","l","e",".","p","n","g"," ","4","8","0","w",","," ","i","m","a","g","e","s","/","c","a","t","-","d","e","s","k","t","o","p",".","p","n","g"," ","1","2","8","0","w",","," ","i","m","a","g","e","s","/","c","a","t",".","p","n","g"," ","1","9","2","0","w","\""," ","s","i","z","e","s","=","\"","(","m","a","x","-","w","i","d","t","h",":"," ","6","0","0","p","x",")"," ","4","8","0","p","x",","," ","1","2","8","0","p","x","\"">>
C11_B == <<"s","r","c","s","e","t","=","\"","i","m","a","g","e","s","/","b","-","m","o","b","i","l","e",".","J","P","G"," ","4","8","0","w",","," ","i","m","a","g","e","s","/","b","-","d","e","s","k","t","o","p",".","J","P","G"," ","1","2","8","0","w",","," ","i","m","a","g","e","s","/","b",".","J","P","G"," ","1","9","2","0","w","\""," ","s","i","z","e","s","=","\"","(","m","a","x","-","w","i","d","t","h",":"," ","6","0","0","p","x",")"," ","4","8","0","p","x",","," ","1","2","8","0","p","x","\"">>
C11_NoExt == <<"s","r","c","s","e","t","=","\"","i","m","a","g","e","s","/","c","a","t","-","m","o","b","i","l","e"," ","4","8","0","w",","," ","i","m","a","g","e","s","/","c","a","t","-","d","e","s","k","t","o","p"," ","1","2","8","0","w",","," ","i","m","a","g","e","s","/","c","a","t"," ","1","9","2","0","w","\""," ","s","i","z","e","s","=","\"","(","m","a","x","-","w","i","d","t","h",":"," ","6","0","0","p","x",")"," ","4","8","0","p","x",","," ","1","2","8","0","p","x","\"">>
C11_A == <<"s","r","c","s","e","t","=","\"","i","m","a","g","e","s","/","a","-","m","o","b","i","l","e",".","p","n","g"," ","4","8","0","w",","," ","i","m","a","g","e","s","/","a","-","d","e","s","k","t","o","p",".","p","n","g"," ","1","2","8","0","w",","," ","i","m","a","g","e","s","/","a",".","p","n","g"," ","1","9","2","0","w","\""," ","s","i","z","e","s","=","\"","(","m","a","x","-","w","i","d","t","h",":"," ","6","0","0","p","x",")"," ","4","8","0","p","x",","," ","1","2","8","0","p","x","\"">>
C11_SubCat == <<"s","r","c","s","e","t","=","\"","i","m","a","g","e","s","/","s","u","b","/","c","a","t","-","m","o","b","i","l","e",".","p","n","g"," ","4","8","0","w",","," ","i","m","a","g","e","s","/","s","u","b","/","c","a","t","-","d","e","s","k","t","o","p",".","p","n","g"," ","1","2","8","0","w",","," ","i","m","a","g","e","s","/","s","u","b","/","c","a","t",".","p","n","g"," ","1","9","2","0","w","\""," ","s","i","z","e","s","=","\"","(","m","a","x","-","w","i","d","t","h",":"," ","6","0","0","p","x",")"," ","4","8","0","p","x",","," ","1","2","8","0","p","x","\"">>

\* what the rewrite of one fragment may be: a tag whose src is under images/ gets
\* the -mobile src, the srcset and the sizes and keeps its other attributes, and
\* everything else stays as it is; for a src in a subdirectory of images/ both
\* the rewrite within the subdirectory and no rewrite are accepted
C11_Expected(frag) ==
    \* <img src="images/cat.png">
    CASE frag = <<"<","i","m","g"," ","s","r","c","=","\"","i","m","a","g","e","s","/","c","a","t",".","p","n","g","\"",">">> ->
             {<<"<","i","m","g"," ","s","r","c","=","\"","i","m","a","g","e","s","/","c","a","t","-","m","o","b","i","l","e",".","p","n","g","\""," ">> \o C11_Cat \o <<">">>}
      \* <img alt="x" src="images/cat.png" class="y" />
      [] frag = <<"<","i","m","g"," ","a","l","t","=","\"","x","\""," ","s","r","c","=","\"","i","m","a","g","e","s","/","c","a","t",".","p","n","g","\""," ","c","l","a","s","s","=","\"","y","\""," ","/",">">> ->
             {<<"<","i","m","g"," ","a","l","t","=","\"","x","\""," ","s","r","c","=","\"","i","m","a","g","e","s","/","c","a","t","-","m","o","b","i","l","e",".","p","n","g","\""," ">> \o C11_Cat \o <<" ","c","l","a","s","s","=","\"","y","\""," ","/",">">>}
      \* <img class="z" src="images/b.JPG">
      [] frag = <<"<","i","m","g"," ","c","l","a","s","s","=","\"","z","\""," ","s","r","c","=","\"","i","m","a","g","e","s","/","b",".","J","P","G","\"",">">> ->
             {<<"<","i","m","g"," ","c","l","a","s","s","=","\"","z","\""," ","s","r","c","=","\"","i","m","a","g","e","s","/","b","-","m","o","b","i","l","e",".","J","P","G","\""," ">> \o C11_B \o <<">">>}
      \* <img src="images/cat">
      [] frag = <<"<","i","m","g"," ","s","r","c","=","\"","i","m","a","g","e","s","/","c","a","t","\"",">">> ->
             {<<"<","i","m","g"," ","s","r","c","=","\"","i","m","a","g","e","s","/","c","a","t","-","m","o","b","i","l","e","\""," ">> \o C11_NoExt \o <<">">>}
      \* <img src="images/a.png" data-src="images/b.png">
      [] frag = <<"<","i","m","g"," ","s","r","c","=","\"","i","m","a","g","e","s","/","a",".","p","n","g","\""," ","d","a","t","a","-","s","r","c","=","\"","i","m","a","g","e","s","/","b",".","p","n","g","\"",">">> ->
             {<<"<","i","m","g"," ","s","r","c","=","\"","i","m","a","g","e","s","/","a","-","m","o","b","i","l","e",".","p","n","g","\""," ">> \o C11_A \o <<" ","d","a","t","a","-","s","r","c","=","\"","i","m","a","g","e","s","/","b",".","p","n","g","\"",">">>}
      \* <img src="images/sub/cat.png">
      [] frag = <<"<","i","m","g"," ","s","r","c","=","\"","i","m","a","g","e","s","/","s","u","b","/","c","a","t",".","p","n","g","\"",">">> ->
            {frag, <<"<","i","m","g"," ","s","r","c","=","\"","i","m","a","g","e","s","/","s","u","b","/","c","a","t","-","m","o","b","i","l","e",".","p","n","g","\""," ">> \o C11_SubCat \o <<">">>}
      [] OTHER -> {frag}

RECURSIVE C11_ExpectedAll(_)
C11_ExpectedAll(parts) ==
    IF parts = <<>> THEN {<<>>}
    ELSE {a \o b : a \in C11_Expected(Head(parts)), b \in C11_ExpectedAll(Tail(parts))}

\* C11: apply_responsive_images rewrites every <img> tag whose src is
\* images/<name><ext>, wherever src stands among the attributes: src becomes
\* images/<name>-mobile<ext>, a srcset with the -mobile (480w), -desktop (1280w)
\* and original (1920w) variants and the sizes hint are added, the other
\* attributes are kept; every other tag and all text outside <img> tags is
\* returned unchanged.
C11_RewritesImgTags ==
    rw_pc = "return" =>
        \A parts \in SeqsUpTo(FragmentPool, MaxFragments) :
            html = Concat(parts) => rewritten \in C11_ExpectedAll(parts)

\* ---- C12 ----
\* the order in which collect_all_tags_data meets the (post, tag) occurrences:
\* post by post in the order of the list, tag by tag within a post
C12_Before(o, p) == o[1] < p[1] \/ (o[1] = p[1] /\ o[2] < p[2])

C12_First(slug) ==
    CHOOSE o \in C3_Occurrences(slug) : \A p \in C3_Occurrences(slug) : p = o \/ C12_Before(o, p)

C12_Last(slug) ==
    CHOOSE o \in C3_Occurrences(slug) : \A p \in C3_Occurrences(slug) : p = o \/ C12_Before(p, o)

C12_TagOf(o) == posts[o[1]].tags[o[2]]

\* the tag strings that share the slug
C12_Strings(slug) == {C12_TagOf(o) : o \in C3_Occurrences(slug)}

C12_Url(slug) == <<"t","a","g","s","/">> \o slug \o <<".","h","t","m","l">>

\* tag strings of one slug are in one entry, and the all-tags page lists every
\* entry with its name and count under the path of the page render_tag_pages
\* wrote for it
C12_OneEntryOnePage ==
    LET td == all_tags_data
        listed == fs[<<"t","a","g","s",".","h","t","m","l">>].tags
    IN  /\ \A a \in DOMAIN posts : \A b \in DOMAIN posts[a].tags :
              Cardinality({i \in DOMAIN td : td[i].slug = C3_SlugOf(posts[a].tags[b])}) = 1
        /\ Len(listed) = Len(td)
        /\ \A i \in DOMAIN td :
              /\ td[i].slug = C3_SlugOf(td[i].name)
              /\ \E k \in DOMAIN listed :
                    /\ listed[k].name = td[i].name
                    /\ listed[k].url = C12_Url(td[i].slug)
                    /\ listed[k].count = td[i].count
              /\ C12_Url(td[i].slug) \in DOMAIN fs
              /\ fs[C12_Url(td[i].slug)].kind = "tag"
              /\ fs[C12_Url(td[i].slug)].tag_name = td[i].name

\* C12 as stated: tag strings with the same slug collide into one entry, the
\* entry keeps the name of the last such tag processed, and the all-tags page
\* lists the entry under tags/<slug>.html, the file render_tag_pages wrote.
C12_LastNameWins ==
    Did("render_tags_list_page") =>
        /\ C12_OneEntryOnePage
        /\ \A i \in DOMAIN all_tags_data :
              all_tags_data[i].name = C12_TagOf(C12_Last(all_tags_data[i].slug))

\* C12 amended: tag strings with the same slug collide into one entry, the
\* entry keeps the name of the first such tag processed, and the all-tags page
\* lists the entry under tags/<slug>.html, the file render_tag_pages wrote.
C12_FirstNameWins ==
    Did("render_tags_list_page") =>
        /\ C12_OneEntryOnePage
        /\ \A i \in DOMAIN all_tags_data :
              all_tags_data[i].name = C12_TagOf(C12_First(all_tags_data[i].slug))

\* c++ and c of one post have collided, and so have go and go! of two posts
C12_Witness ==
    /\ Did("render_tags_list_page")
    /\ C12_Strings(<<"c">>) = {<<"c","+","+">>, <<"c">>}
    /\ C12_Strings(<<"g","o">>) = {<<"g","o">>, <<"g","o","!">>}
    /\ \E i \in DOMAIN all_tags_data :
          /\ all_tags_data[i].name = <<"c","+","+">>
          /\ all_tags_data[i].count = 2
    /\ \E k \in DOMAIN fs[<<"t","a","g","s",".","h","t","m","l">>].tags :
          /\ fs[<<"t","a","g","s",".","h","t","m","l">>].tags[k].name = <<"c","+","+">>
          /\ fs[<<"t","a","g","s",".","h","t","m","l">>].tags[k].url = <<"t","a","g","s","/","c",".","h","t","m","l">>
    /\ <<"t","a","g","s","/","c",".","h","t","m","l">> \in DOMAIN fs

====
